---- MODULE Spec2Model ----
(***************************************************************************)
(* A model of the logo scraper (logo_scraper_advanced.py): LogoScraper's   *)
(* single-URL pipeline (get_logo and its helpers) as operators over a      *)
(* parsed document, and the batch run of main (thread pool or sequential   *)
(* loop) as a state machine.                                               *)
(*                                                                         *)
(* Python values: a str is a TLA+ string; a cell of the input column is a  *)
(* record [t, s, n] (PyStr, PyInt) because a spreadsheet cell need not be  *)
(* a str.  None is the string None below, which no path or message equals. *)
(***************************************************************************)
EXTENDS Integers, Sequences, FiniteSets, TLC

None == "<None>"

(***************************************************************************)
(* Bounds of the model.                                                    *)
(***************************************************************************)
\* longest document (number of top-level elements) given to get_logo
MaxElems == 2
\* size of the space uuid4().hex[:8] is drawn from (16^8 in the program)
NumSuffixes == 2
\* most rows of the input column in a batch run
MaxUrls == 2
\* largest value of the "Parallel Workers" slider explored
MaxWorkers == 2
\* largest value of the "Batch Size" slider explored
MaxBatchSize == 2

(***************************************************************************)
(* str methods used by the program.                                        *)
(***************************************************************************)
Contains(needle, hay) ==
    \E i \in 1..(Len(hay) - Len(needle) + 1) :
        SubSeq(hay, i, i + Len(needle) - 1) = needle

StartsWith(s, p) == Len(s) >= Len(p) /\ SubSeq(s, 1, Len(p)) = p

EndsWith(s, p) == Len(s) >= Len(p) /\ SubSeq(s, Len(s) - Len(p) + 1, Len(s)) = p

UpperAlpha == "ABCDEFGHIJKLMNOPQRSTUVWXYZ"

LowerAlpha == "abcdefghijklmnopqrstuvwxyz"

LowerChar(c) ==
    IF \E i \in 1..Len(UpperAlpha) : SubSeq(UpperAlpha, i, i) = c
    THEN LET i == CHOOSE k \in 1..Len(UpperAlpha) : SubSeq(UpperAlpha, k, k) = c
         IN  SubSeq(LowerAlpha, i, i)
    ELSE c

RECURSIVE Lower(_)
Lower(s) ==
    IF Len(s) = 0 THEN ""
    ELSE LowerChar(SubSeq(s, 1, 1)) \o Lower(SubSeq(s, 2, Len(s)))

RECURSIVE LStrip(_)
LStrip(s) ==
    IF Len(s) > 0 /\ SubSeq(s, 1, 1) = " " THEN LStrip(SubSeq(s, 2, Len(s))) ELSE s

RECURSIVE RStripChar(_, _)
RStripChar(s, c) ==
    IF Len(s) > 0 /\ SubSeq(s, Len(s), Len(s)) = c
    THEN RStripChar(SubSeq(s, 1, Len(s) - 1), c)
    ELSE s

Strip(s) == RStripChar(LStrip(s), " ")

RECURSIVE Replace(_, _, _)
Replace(s, old, new) ==
    IF Len(s) = 0 THEN ""
    ELSE (IF SubSeq(s, 1, 1) = old THEN new ELSE SubSeq(s, 1, 1))
         \o Replace(SubSeq(s, 2, Len(s)), old, new)

RECURSIVE Join(_)
Join(tokens) ==
    IF Len(tokens) = 0 THEN ""
    ELSE IF Len(tokens) = 1 THEN tokens[1]
    ELSE tokens[1] \o " " \o Join(Tail(tokens))

\* index of the first / last occurrence of the character c in s, 0 if none
FirstIndex(s, c) ==
    IF \E i \in 1..Len(s) : SubSeq(s, i, i) = c
    THEN CHOOSE i \in 1..Len(s) :
            /\ SubSeq(s, i, i) = c
            /\ \A j \in 1..(i - 1) : SubSeq(s, j, j) # c
    ELSE 0

LastIndex(s, c) ==
    IF \E i \in 1..Len(s) : SubSeq(s, i, i) = c
    THEN CHOOSE i \in 1..Len(s) :
            /\ SubSeq(s, i, i) = c
            /\ \A j \in (i + 1)..Len(s) : SubSeq(s, j, j) # c
    ELSE 0

Digits == "0123456789"

RECURSIVE IntToStr(_)
IntToStr(n) ==
    IF n < 10 THEN SubSeq(Digits, n + 1, n + 1)
    ELSE IntToStr(n \div 10) \o SubSeq(Digits, (n % 10) + 1, (n % 10) + 1)

\* os.path.basename
Basename(p) == SubSeq(p, LastIndex(p, "/") + 1, Len(p))

(***************************************************************************)
(* Python values of an input cell, str() and == on them.                   *)
(***************************************************************************)
PyStr(s) == [t |-> "str", s |-> s, n |-> 0]

PyInt(n) == [t |-> "int", s |-> "", n |-> n]

\* str(value): what df[url_column].astype(str) does to each cell
AsStr(c) == IF c.t = "str" THEN c.s ELSE IntToStr(c.n)

(***************************************************************************)
(* URLs: urlparse(url).netloc and urljoin(base_url, ref).                  *)
(***************************************************************************)
SchemeLen(url) ==
    IF StartsWith(url, "https://") THEN 8
    ELSE IF StartsWith(url, "http://") THEN 7
    ELSE 0

\* the part of url after "scheme://"
AfterScheme(url) == SubSeq(url, SchemeLen(url) + 1, Len(url))

Netloc(url) ==
    LET rest == AfterScheme(url)
        k    == FirstIndex(rest, "/")
    IN  IF k = 0 THEN rest ELSE SubSeq(rest, 1, k - 1)

UrlPath(url) ==
    LET rest == AfterScheme(url)
        k    == FirstIndex(rest, "/")
    IN  IF k = 0 THEN "" ELSE SubSeq(rest, k, Len(rest))

Origin(url) == SubSeq(url, 1, SchemeLen(url)) \o Netloc(url)

urljoin(base, ref) ==
    IF SchemeLen(ref) > 0 THEN ref
    ELSE IF StartsWith(ref, "/") THEN Origin(base) \o ref
    ELSE LET p == UrlPath(base)
         IN  Origin(base) \o (IF p = "" THEN "/" ELSE SubSeq(p, 1, LastIndex(p, "/"))) \o ref

(***************************************************************************)
(* LogoScraper._prepare_url: None for a value that is no str or is blank,  *)
(* else the stripped URL with a scheme and without trailing slashes.       *)
(***************************************************************************)
prepare_url(url) ==
    IF url.t # "str" \/ url.s = "" THEN None
    ELSE LET u == Strip(url.s)
         IN  IF u = "" THEN None
             ELSE RStripChar(IF SchemeLen(u) > 0 THEN u ELSE "https://" \o u, "/")

(***************************************************************************)
(* The parsed document (BeautifulSoup): a sequence of elements in document *)
(* order; a header, nav or div element holds its descendants in children.  *)
(* An absent attribute is "" (a str attribute) or <<>> (rel and class,     *)
(* which the parser keeps as lists).                                       *)
(***************************************************************************)
Elem(tag) ==
    [tag |-> tag, rel |-> <<>>, href |-> "", src |-> "", data |-> "", class |-> <<>>,
     id |-> "", alt |-> "", title |-> "", name |-> "", hasTitle |-> FALSE,
     titleText |-> "", children |-> <<>>]

ConcatMap(F(_), s) ==
    LET f[i \in 0..Len(s)] == IF i = 0 THEN <<>> ELSE f[i - 1] \o F(s[i])
    IN  f[Len(s)]

\* every element of the document, descendants included, in document order
Flatten(soup) == ConcatMap(LAMBDA e : <<e>> \o e.children, soup)

\* soup.find_all(tags)
FindAll(soup, tags) == SelectSeq(Flatten(soup), LAMBDA e : e.tag \in tags)

Attr(nm, v) == IF v = "" THEN "" ELSE " " \o nm \o "=\"" \o v \o "\""

\* str(tag): the element's markup
Markup(e) ==
    IF e.tag = "svg"
    THEN "<svg>" \o (IF e.hasTitle THEN "<title>" \o e.titleText \o "</title>" ELSE "")
         \o "</svg>"
    ELSE "<" \o e.tag \o Attr("alt", e.alt) \o Attr("class", Join(e.class))
         \o Attr("id", e.id) \o Attr("name", e.name) \o Attr("src", e.src)
         \o Attr("title", e.title) \o "/>"

\* a candidate: the tuple (full_url, score) or (svg_str, score, 'inline_svg')
Cand(loc, score) == [loc |-> loc, score |-> score, kind |-> "url"]

InlineCand(markup, score) == [loc |-> markup, score |-> score, kind |-> "inline_svg"]

(***************************************************************************)
(* Strategy 1: LogoScraper._find_favicon_links.                            *)
(***************************************************************************)
IconRels == {"icon", "shortcut icon", "apple-touch-icon", "apple-touch-icon-precomposed"}

\* the score the if / elif chain gives a link with this rel (0: no candidate)
FaviconScore(rel) ==
    IF \E x \in IconRels : Contains(x, rel) THEN 5
    ELSE IF Contains("apple-touch-icon", rel) /\ Contains("precomposed", rel) THEN 8
    ELSE 0

RelOf(link) == Lower(Join(link.rel))

find_favicon_links(soup, base_url) ==
    ConcatMap(LAMBDA link :
                  IF link.href = "" \/ FaviconScore(RelOf(link)) = 0 THEN <<>>
                  ELSE <<Cand(urljoin(base_url, link.href), FaviconScore(RelOf(link)))>>,
              FindAll(soup, {"link"}))

(***************************************************************************)
(* Strategy 2: LogoScraper._find_logo_in_img_attributes.  class is a list: *)
(* it is joined and, unlike the str attributes, not lowercased.            *)
(***************************************************************************)
AttrScore(value) ==
    (IF Contains("logo", value) THEN 3 ELSE 0)
    + (IF Contains("brand", value) THEN 2 ELSE 0)
    + (IF Contains("header", value) THEN 1 ELSE 0)

ImgScore(img) ==
    AttrScore(IF img.class = <<>> THEN "" ELSE Join(img.class))
    + AttrScore(Lower(img.id)) + AttrScore(Lower(img.alt))
    + AttrScore(Lower(img.title)) + AttrScore(Lower(img.name))
    + (IF Contains("logo", Lower(Basename(img.src))) THEN 3 ELSE 0)

find_logo_in_img_attributes(soup, base_url) ==
    ConcatMap(LAMBDA img :
                  IF img.src = "" \/ ~(ImgScore(img) > 0) THEN <<>>
                  ELSE <<Cand(urljoin(base_url, img.src), ImgScore(img))>>,
              FindAll(soup, {"img"}))

(***************************************************************************)
(* Strategy 3: LogoScraper._find_svg_logos.                                *)
(***************************************************************************)
SrcOrData(e) == IF e.src # "" THEN e.src ELSE e.data

find_svg_logos(soup, base_url) ==
    ConcatMap(LAMBDA svg :
                  IF svg.hasTitle /\ (Contains("logo", Lower(svg.titleText))
                                      \/ Contains("brand", Lower(svg.titleText)))
                  THEN <<InlineCand(Markup(svg), 7)>>
                  ELSE <<>>,
              FindAll(soup, {"svg"}))
    \o
    ConcatMap(LAMBDA link :
                  IF SrcOrData(link) # "" /\ EndsWith(Lower(SrcOrData(link)), ".svg")
                  THEN <<Cand(urljoin(base_url, SrcOrData(link)), 6)>>
                  ELSE <<>>,
              FindAll(soup, {"img", "object", "embed"}))

(***************************************************************************)
(* Strategy 4: LogoScraper._find_header_logos.                             *)
(***************************************************************************)
HeaderTokens == {"header", "nav", "top", "logo", "brand"}

IsHeaderElement(e) ==
    /\ e.tag \in {"header", "nav", "div"}
    /\ \E i \in 1..Len(e.class) : \E x \in HeaderTokens : Contains(x, Lower(e.class[i]))

HeaderImgScore(img) ==
    4 + (IF Contains("logo", Lower(Markup(img))) \/ Contains("brand", Lower(Markup(img)))
         THEN 2 ELSE 0)

find_header_logos(soup, base_url) ==
    ConcatMap(LAMBDA header :
                  ConcatMap(LAMBDA img :
                                IF img.src = "" THEN <<>>
                                ELSE <<Cand(urljoin(base_url, img.src), HeaderImgScore(img))>>,
                            SelectSeq(header.children, LAMBDA c : c.tag = "img")),
              SelectSeq(Flatten(soup), IsHeaderElement))

(***************************************************************************)
(* get_logo, lines 41-54: the four strategies' outputs, concatenated.      *)
(***************************************************************************)
Discover(soup, base_url) ==
    find_favicon_links(soup, base_url) \o find_logo_in_img_attributes(soup, base_url)
    \o find_svg_logos(soup, base_url) \o find_header_logos(soup, base_url)

(***************************************************************************)
(* candidates.sort(key=lambda x: x[1], reverse=True): the list is reversed,*)
(* sorted ascending by a stable sort, and reversed again.                  *)
(***************************************************************************)
Reverse(s) == [i \in 1..Len(s) |-> s[Len(s) + 1 - i]]

\* x put after the last element whose score is at most x's
InsertAsc(s, x) ==
    LET k == Cardinality({i \in 1..Len(s) : s[i].score <= x.score})
    IN  SubSeq(s, 1, k) \o <<x>> \o SubSeq(s, k + 1, Len(s))

StableSortAsc(s) ==
    LET f[i \in 0..Len(s)] == IF i = 0 THEN <<>> ELSE InsertAsc(f[i - 1], s[i])
    IN  f[Len(s)]

SortNoPreReverse(candidates) == Reverse(StableSortAsc(candidates))

sort_by_score_reverse(candidates) == Reverse(StableSortAsc(Reverse(candidates)))

(***************************************************************************)
(* What the network and the disk do to one candidate when it is tried:     *)
(*   out     fetch_error    requests.get / raise_for_status raises         *)
(*           decode_error   Image.open raises                              *)
(*           decoded        an image of width x height and format fmt;     *)
(*   save    ok | error (open or save raises, no file is left)             *)
(*              | partial (the file is created, then the write raises)     *)
(*   uuid    the value uuid4().hex[:8] takes if a filename is generated    *)
(* An inline SVG candidate is not fetched: only save and uuid apply.       *)
(* The entries explored: every failure once (a file left by a failed save  *)
(* under one drawn name), and success under every format and drawn name.   *)
(***************************************************************************)
Suffixes == 0..(NumSuffixes - 1)

\* Image.format of the decoded asset; None: the image has no format
Formats == {"ICO", None}

\* (width, height) of the decoded asset
Dims == {<<15, 64>>, <<64, 15>>, <<16, 16>>}

MinDimension == 16

Entry(out, dim, fmt, save, uuid) ==
    [out |-> out, width |-> dim[1], height |-> dim[2], fmt |-> fmt, save |-> save,
     uuid |-> uuid]

TooSmallWidthOnly(e) == e.width < MinDimension

\* img.width < 16 or img.height < 16
TooSmall(e) == e.width < MinDimension \/ e.height < MinDimension

\* the candidate's try block ends in "return filepath, 'Success'"
Succeeds(c, e) ==
    IF c.kind = "inline_svg" THEN e.save = "ok"
    ELSE e.out = "decoded" /\ ~TooSmall(e) /\ e.save = "ok"

\* the asset is fetched and passes validation (decodes, is not too small)
PassesValidation(c, e) ==
    IF c.kind = "inline_svg" THEN TRUE ELSE e.out = "decoded" /\ ~TooSmall(e)

UrlEntries ==
    {Entry("fetch_error", <<16, 16>>, None, "ok", 0),
     Entry("decode_error", <<16, 16>>, None, "ok", 0)}
    \cup {Entry("decoded", d, None, "ok", 0) : d \in {d \in Dims : d[1] < 16 \/ d[2] < 16}}
    \cup {Entry("decoded", <<16, 16>>, None, "error", 0)}
    \cup {Entry("decoded", <<16, 16>>, None, "partial", 0)}
    \cup {Entry("decoded", <<16, 16>>, f, "ok", u) : f \in Formats, u \in Suffixes}

InlineEntries ==
    {Entry("decoded", <<16, 16>>, None, "error", 0),
     Entry("decoded", <<16, 16>>, None, "partial", 0)}
    \cup {Entry("decoded", <<16, 16>>, None, "ok", u) : u \in Suffixes}

EntriesFor(c) == IF c.kind = "inline_svg" THEN InlineEntries ELSE UrlEntries

\* what is not read once a candidate has succeeded
RestEntry == Entry("decoded", <<16, 16>>, None, "ok", 0)

(***************************************************************************)
(* The plans for a ranked list: one entry per candidate; after the first   *)
(* candidate that succeeds the entries are RestEntry (the program does not *)
(* observe them).                                                          *)
(***************************************************************************)
RECURSIVE Plans(_)
Plans(ranked) ==
    IF ranked = <<>> THEN {<<>>}
    ELSE LET c == Head(ranked)
             n == Len(ranked) - 1
         IN  {<<e>> \o [i \in 1..n |-> RestEntry] : e \in {e \in EntriesFor(c) : Succeeds(c, e)}}
             \cup {<<e>> \o p : e \in {e \in EntriesFor(c) : ~Succeeds(c, e)},
                                p \in Plans(Tail(ranked))}

(***************************************************************************)
(* Filenames: f"{domain.replace('.', '_')}_{uuid.uuid4().hex[:8]}.{ext}"   *)
(***************************************************************************)
HexDigits == "0123456789abcdef"

RECURSIVE Hex(_)
Hex(n) ==
    IF n < 16 THEN SubSeq(HexDigits, n + 1, n + 1)
    ELSE Hex(n \div 16) \o SubSeq(HexDigits, (n % 16) + 1, (n % 16) + 1)

\* uuid4().hex[:8] for the drawn value u: eight hexadecimal digits
Hex8(u) == SubSeq("00000000", 1, 8 - Len(Hex(u))) \o Hex(u)

Filename(domain, u, ext) == Replace(domain, ".", "_") \o "_" \o Hex8(u) \o "." \o ext

\* os.path.join(self.output_dir, filename), output_dir = 'logos'
Filepath(filename) == "logos/" \o filename

\* img.format.lower() if img.format else 'png'
ExtOf(e) == IF e.fmt # None THEN Lower(e.fmt) ELSE "png"

CandFilename(c, e, domain) ==
    Filename(domain, e.uuid, IF c.kind = "inline_svg" THEN "svg" ELSE ExtOf(e))

(***************************************************************************)
(* LogoScraper._process_logo_candidates.  The value is a record:           *)
(*   result    the (path, message) returned                                *)
(*   ranked    the candidate list after the sort                           *)
(*   tried     indices into ranked of the candidates whose try block ran   *)
(*   fetched   indices of the candidates requests.get was called for       *)
(*   created   the paths of the files created on disk, in order            *)
(*   winner    index of the candidate the result comes from, 0 if none     *)
(***************************************************************************)
NoCandidatesResult == <<None, "No logo candidates found">>

AllFailedAsNoCandidates == <<None, "No logo candidates found">>

AllFailedResult == <<None, "No valid logo found among candidates">>

SuccessWithoutPath(filepath) == <<None, "Success">>

SuccessResult(filepath) == <<filepath, "Success">>

ContinuesAlways(c, e) == TRUE

\* whether the loop goes on to the next candidate after this one (continue,
\* lines 229 and 242) instead of returning (lines 215 and 239)
ContinuesAfter(c, e) == ~Succeeds(c, e)

RECURSIVE TryFrom(_, _, _, _, _)
TryFrom(ranked, plan, domain, i, acc) ==
    IF i > Len(ranked) THEN [acc EXCEPT !.result = AllFailedResult]
    ELSE LET c     == ranked[i]
             e     == plan[i]
             path  == Filepath(CandFilename(c, e, domain))
             named == PassesValidation(c, e)
             acc1  == [acc EXCEPT
                         !.tried = Append(@, i),
                         !.fetched = IF c.kind = "inline_svg" THEN @ ELSE Append(@, i),
                         !.created = IF named /\ e.save \in {"ok", "partial"}
                                     THEN Append(@, path) ELSE @]
         IN  IF ContinuesAfter(c, e)
             THEN TryFrom(ranked, plan, domain, i + 1, acc1)
             ELSE [acc1 EXCEPT !.result = SuccessResult(path), !.winner = i]

process_logo_candidates(candidates, domain, plan) ==
    LET ranked == sort_by_score_reverse(candidates)
        acc0   == [result |-> NoCandidatesResult, ranked |-> ranked, tried |-> <<>>,
                   fetched |-> <<>>, created |-> <<>>, winner |-> 0]
    IN  IF candidates = <<>> THEN acc0
        ELSE TryFrom(ranked, plan, domain, 1, acc0)

(***************************************************************************)
(* LogoScraper.get_logo.  site is what the web server does when the page   *)
(* is requested: page = "ok" with the document soup, or the exception that *)
(* requests.get / raise_for_status ("request_error") or any later line of  *)
(* the try block ("unexpected_error") raises, with str(e) in err.          *)
(* Raise as the path of a result stands for an exception leaving the       *)
(* function instead of a returned tuple.                                   *)
(***************************************************************************)
Raise == "<raise>"

InvalidUrlResult == <<None, "Invalid URL">>

OnRequestExceptionReraise(err) == <<Raise, err>>

\* except requests.exceptions.RequestException as e
OnRequestException(err) == <<None, "Request error: " \o err>>

\* except Exception as e
OnException(err) == <<None, "Unexpected error: " \o err>>

NoRun(result) ==
    [result |-> result, ranked |-> <<>>, tried |-> <<>>, fetched |-> <<>>,
     created |-> <<>>, winner |-> 0]

get_logo(url, site, plan) ==
    LET u == prepare_url(url)
    IN  IF u = None THEN NoRun(InvalidUrlResult)
        ELSE IF site.page = "request_error" THEN NoRun(OnRequestException(site.err))
        ELSE IF site.page = "unexpected_error" THEN NoRun(OnException(site.err))
        ELSE process_logo_candidates(Discover(site.soup, u), Netloc(u), plan)

\* the candidate list get_logo hands to _process_logo_candidates
CandidatesOf(url, site) ==
    IF prepare_url(url) = None \/ site.page # "ok" THEN <<>>
    ELSE Discover(site.soup, prepare_url(url))

(***************************************************************************)
(* Inputs: the elements documents are made of, the documents, the URLs.    *)
(***************************************************************************)
LinkIcon == [Elem("link") EXCEPT !.rel = <<"shortcut", "icon">>, !.href = "/favicon.ico"]

LinkTouch ==
    [Elem("link") EXCEPT !.rel = <<"apple-touch-icon-precomposed">>, !.href = "touch.png"]

LinkCss == [Elem("link") EXCEPT !.rel = <<"stylesheet">>, !.href = "/site.css"]

ImgLogo == [Elem("img") EXCEPT !.src = "/img/Logo.png", !.class = <<"site-logo">>]

SvgInline == [Elem("svg") EXCEPT !.hasTitle = TRUE, !.titleText = "Acme Logo"]

NavBrand ==
    [Elem("div") EXCEPT !.class = <<"NavBar">>,
                        !.children = <<[Elem("img") EXCEPT !.src = "/brandmark.png"]>>]

\* found by strategy 2 (the filename) and by strategy 3 (the extension)
ImgSvg == [Elem("img") EXCEPT !.src = "/logo.svg"]

Catalogue == {LinkIcon, LinkTouch, LinkCss, ImgLogo, SvgInline, ImgSvg, NavBrand}

RECURSIVE SeqsUpTo(_, _)
SeqsUpTo(S, n) ==
    IF n = 0 THEN {<<>>}
    ELSE LET shorter == SeqsUpTo(S, n - 1)
         IN  shorter \cup {Append(s, x) : s \in {t \in shorter : Len(t) = n - 1}, x \in S}

Docs == SeqsUpTo(Catalogue, MaxElems)

ErrTexts == {"", "timed out"}

Sites ==
    {[page |-> "ok", err |-> "", soup |-> d] : d \in Docs}
    \cup {[page |-> p, err |-> e, soup |-> <<>>] :
            p \in {"request_error", "unexpected_error"}, e \in ErrTexts}

\* values get_logo is called with
UrlInputs == {PyStr(" http://b.org/shop/ "), PyStr("a.com"), PyStr("  "), PyStr(""), PyInt(7)}

(***************************************************************************)
(* The batch run of main (lines 283-344).                                  *)
(*                                                                         *)
(* Inputs of a run: the cells of the chosen column, and the sliders        *)
(* max_workers and batch_size.  What a server does is chosen when the      *)
(* get_logo call for a URL returns.                                        *)
(***************************************************************************)
CellValues == {PyStr("a.com/x"), PyStr("a.com/y"), PyStr(""), PyInt(7)}

\* the sites and candidate outcomes a batch run meets
BatchSites ==
    {[page |-> "request_error", err |-> "timed out", soup |-> <<>>],
     [page |-> "unexpected_error", err |-> "", soup |-> <<>>],
     [page |-> "ok", err |-> "", soup |-> <<LinkIcon>>]}

BatchEntries ==
    {Entry("fetch_error", <<16, 16>>, None, "ok", 0)}
    \cup {Entry("decoded", <<16, 16>>, None, "ok", u) : u \in Suffixes}

BatchPlans(site, u) ==
    {p \in Plans(sort_by_score_reverse(CandidatesOf(PyStr(u), site))) :
        \A i \in 1..Len(p) : p[i] \in BatchEntries \cup {RestEntry}}

\* every (path, message) scraper.get_logo(u) can return in a batch run
GetLogoResults(u) ==
    UNION {{get_logo(PyStr(u), s, p).result : p \in BatchPlans(s, u)} : s \in BatchSites}

ResultsOf == [u \in {AsStr(c) : c \in CellValues} |-> GetLogoResults(u)]

\* urls = df[url_column].astype(str).tolist()
UrlsOf(cells) == [i \in 1..Len(cells) |-> AsStr(cells[i])]

Min(a, b) == IF a <= b THEN a ELSE b

\* len(range(0, len(urls), batch_size))
NumBatches(n, batch_size) == (n + batch_size - 1) \div batch_size

\* batches = [urls[i:i + batch_size] for i in range(0, len(urls), batch_size)]
BatchesOf(urls, batch_size) ==
    [b \in 1..NumBatches(Len(urls), batch_size) |->
        SubSeq(urls, (b - 1) * batch_size + 1, Min(b * batch_size, Len(urls)))]

\* the row of the k-th URL of batch b
RowOf(b, k, batch_size) == (b - 1) * batch_size + k

AddOne(processed, batch_results) == processed + 1

\* processed_count += len(batch_results)
AddProcessed(processed, batch_results) == processed + Len(batch_results)

\* url in result_dict, for the cell value url = row[url_column]
InResultDict(cell, results) ==
    \E k \in 1..Len(results) : cell.t = "str" /\ cell.s = results[k][1]

\* result_dict[url]: a later result for the same key replaces an earlier one
ResultDictAt(cell, results) ==
    LET k == CHOOSE k \in 1..Len(results) :
                 /\ cell.s = results[k][1]
                 /\ \A j \in (k + 1)..Len(results) : cell.s # results[j][1]
    IN  <<results[k][2], results[k][3]>>

\* lines 339-344: the logo_path and status columns after the update loop
UpdatedReport(cells, results) ==
    [i \in 1..Len(cells) |->
        IF InResultDict(cells[i], results) THEN ResultDictAt(cells[i], results)
        ELSE <<None, None>>]

(***************************************************************************)
(* State.  The first group is one call of get_logo; the second the batch   *)
(* run of main.                                                            *)
(***************************************************************************)
VARIABLES
    pc,               \* "call", "process" (line 57 is next) or "returned"
    url,              \* the argument of get_logo
    site,             \* what the server of url serves
    logo_candidates,  \* the merged candidate list (line 57)
    plan,             \* what happened to each ranked candidate
    run               \* the value of get_logo: result and what it did

VARIABLES
    mpc,              \* main: "idle", "start", "collect", "loop", "update", "done", "aborted"
    cells,            \* df[url_column]
    answers,          \* per URL string: the results scraper.get_logo can return
    urls,             \* line 296
    batches,          \* line 309
    max_workers,
    batch_size,
    queue,            \* the executor's work queue: batches no worker has taken
    worker,           \* per pool thread: its batch, URLs done, call in progress, results
    future,           \* per batch: state and result of its future
    seq,              \* sequential loop: URLs done, call in progress
    results,
    processed_count,
    progress,         \* every progress report: the count shown, and (history) the
                      \* number of get_logo calls that had returned when it was shown
    report,           \* the logo_path and status columns of df
    started,          \* history: rows whose get_logo call has begun
    resolved,         \* history: per row, the result of its own get_logo call
    stopRequested     \* the environment has asked the run to stop

callVars == <<pc, url, site, logo_candidates, plan, run>>

batchVars ==
    <<mpc, cells, answers, urls, batches, max_workers, batch_size, queue, worker, future, seq, results,
      processed_count, progress, report, started, resolved, stopRequested>>

vars == <<callVars, batchVars>>

NotYet == <<>>

IdleWorker == [batch |-> 0, pos |-> 0, busy |-> FALSE, out |-> <<>>]

IsIdleAlways(wk) == TRUE

\* a pool thread takes a work item from the queue only when it runs none
IsIdle(wk) == wk.batch = 0

NumFinished == Cardinality({i \in DOMAIN resolved : resolved[i] # NotYet})

BatchFresh ==
    /\ urls = <<>>
    /\ batches = <<>>
    /\ queue = <<>>
    /\ worker = <<>>
    /\ future = <<>>
    /\ seq = [pos |-> 0, busy |-> FALSE]
    /\ results = <<>>
    /\ processed_count = 0
    /\ progress = <<>>
    /\ started = {}
    /\ stopRequested = FALSE

CallIdle ==
    /\ pc = "idle"
    /\ url = PyStr("")
    /\ site = [page |-> "ok", err |-> "", soup |-> <<>>]
    /\ logo_candidates = <<>>
    /\ plan = <<>>
    /\ run = NoRun(<<None, None>>)

(***************************************************************************)
(* One call of get_logo, in two steps: the body of get_logo up to the      *)
(* merged candidate list (lines 26-54, or the return of an error result),  *)
(* then the call of _process_logo_candidates (line 57).  Nothing else runs *)
(* between the two steps.                                                  *)
(***************************************************************************)
Init ==
    /\ pc = "call"
    /\ url \in UrlInputs
    /\ site \in Sites
    /\ logo_candidates = <<>>
    /\ plan = <<>>
    /\ run = NoRun(<<None, None>>)
    /\ mpc = "idle"
    /\ cells = <<>>
    /\ answers = <<>>
    /\ max_workers = 1
    /\ batch_size = 1
    /\ report = <<>>
    /\ resolved = <<>>
    /\ BatchFresh

\* lines 26-54: prepare the URL, fetch and parse the page, run the strategies
FetchAndDiscover ==
    /\ pc = "call"
    /\ IF prepare_url(url) = None \/ site.page # "ok"
       THEN /\ run' = get_logo(url, site, <<>>)
            /\ pc' = "returned"
            /\ UNCHANGED logo_candidates
       ELSE /\ logo_candidates' = CandidatesOf(url, site)
            /\ pc' = "process"
            /\ UNCHANGED run
    /\ UNCHANGED <<url, site, plan>>
    /\ UNCHANGED batchVars

\* line 57: return self._process_logo_candidates(logo_candidates, domain, url)
ProcessCandidates ==
    /\ pc = "process"
    /\ \E p \in Plans(sort_by_score_reverse(logo_candidates)) :
           /\ plan' = p
           /\ run' = process_logo_candidates(logo_candidates,
                                             Netloc(prepare_url(url)), p)
    /\ pc' = "returned"
    /\ UNCHANGED <<url, site, logo_candidates>>
    /\ UNCHANGED batchVars

Next == FetchAndDiscover \/ ProcessCandidates

Spec == Init /\ [][Next]_vars

(***************************************************************************)
(* The batch run.                                                          *)
(***************************************************************************)
InitBatch ==
    /\ CallIdle
    /\ mpc = "start"
    /\ cells \in SeqsUpTo(CellValues, MaxUrls) \ {<<>>}
    /\ answers = ResultsOf
    /\ max_workers \in 1..MaxWorkers
    /\ batch_size \in 1..MaxBatchSize
    /\ report = [i \in 1..Len(cells) |-> <<None, None>>]
    /\ resolved = [i \in 1..Len(cells) |-> NotYet]
    /\ BatchFresh

\* lines 292-313 and 327-328: the column is read; with max_workers > 1 every
\* batch is submitted to the executor at once, else the sequential loop begins
\* and calls scraper.get_logo for the first URL
StartRun ==
    /\ mpc = "start"
    /\ urls' = UrlsOf(cells)
    /\ IF max_workers > 1
       THEN LET nb == NumBatches(Len(cells), batch_size)
            IN  /\ batches' = BatchesOf(UrlsOf(cells), batch_size)
                /\ queue' = [b \in 1..nb |-> b]
                /\ future' = [b \in 1..nb |-> [state |-> "pending", value |-> <<>>]]
                /\ worker' = [w \in 1..max_workers |-> IdleWorker]
                /\ mpc' = "collect"
                /\ UNCHANGED <<seq, started>>
       ELSE /\ mpc' = "loop"
            /\ seq' = [pos |-> 0, busy |-> TRUE]
            /\ started' = {1}
            /\ UNCHANGED <<batches, queue, future, worker>>
    /\ UNCHANGED <<cells, answers, max_workers, batch_size, results, processed_count,
                   progress, report, resolved, stopRequested>>
    /\ UNCHANGED callVars

\* a pool thread takes the next work item, process_url_batch(scraper, batch),
\* and runs it up to its first scraper.get_logo(url) call (line 250).  Idle
\* threads are interchangeable: the one of least index takes the item.
WorkerTake(w) ==
    /\ IsIdle(worker[w])
    /\ \A v \in 1..(w - 1) : worker[v].batch # 0
    /\ queue # <<>>
    /\ worker' = [worker EXCEPT ![w] = [batch |-> Head(queue), pos |-> 0,
                                        busy |-> TRUE, out |-> <<>>]]
    /\ future' = [future EXCEPT ![Head(queue)].state = "running"]
    /\ queue' = Tail(queue)
    /\ started' = started \cup {RowOf(Head(queue), 1, batch_size)}
    /\ UNCHANGED <<mpc, cells, answers, urls, batches, max_workers, batch_size, seq, results, processed_count,
                   progress, report, resolved, stopRequested>>
    /\ UNCHANGED callVars

\* process_url_batch, lines 249-252: get_logo returns, the result is appended
\* and get_logo is called for the batch's next URL; after the last URL the
\* function returns and the future completes.  An exception leaving get_logo
\* ends the function and fails the future.
WorkerFinishUrl(w) ==
    /\ worker[w].batch # 0
    /\ worker[w].busy
    /\ LET b     == worker[w].batch
           batch == batches[b]
           k     == worker[w].pos + 1
           u     == batch[k]
       IN  \E r \in answers[u] :
               IF r[1] = Raise
               THEN /\ future' = [future EXCEPT ![b] = [state |-> "failed", value |-> <<>>]]
                    /\ worker' = [worker EXCEPT ![w] = IdleWorker]
                    /\ UNCHANGED <<resolved, started>>
               ELSE /\ resolved' = [resolved EXCEPT ![RowOf(b, k, batch_size)] = r]
                    /\ IF k = Len(batch)
                       THEN /\ future' = [future EXCEPT ![b] =
                                            [state |-> "done",
                                             value |-> Append(worker[w].out, <<u, r[1], r[2]>>)]]
                            /\ worker' = [worker EXCEPT ![w] = IdleWorker]
                            /\ UNCHANGED started
                       ELSE /\ worker' = [worker EXCEPT ![w] =
                                            [batch |-> b, pos |-> k, busy |-> TRUE,
                                             out |-> Append(worker[w].out, <<u, r[1], r[2]>>)]]
                            /\ started' = started \cup {RowOf(b, k + 1, batch_size)}
                            /\ UNCHANGED future
    /\ UNCHANGED <<mpc, cells, answers, urls, batches, max_workers, batch_size, queue, seq, results,
                   processed_count, progress, report, stopRequested>>
    /\ UNCHANGED callVars

\* lines 316-323: as_completed yields a completed future; its results are
\* collected and progress is shown.  future.result() raises what the batch raised.
Collect ==
    /\ mpc = "collect"
    /\ \E b \in DOMAIN future :
           /\ future[b].state \in {"done", "failed"}
           /\ IF future[b].state = "failed"
              THEN /\ mpc' = "aborted"
                   /\ UNCHANGED <<results, processed_count, progress, future>>
              ELSE /\ results' = results \o future[b].value
                   /\ processed_count' = AddProcessed(processed_count, future[b].value)
                   /\ progress' = Append(progress,
                                    [count |-> AddProcessed(processed_count, future[b].value),
                                     finished |-> NumFinished])
                   /\ future' = [future EXCEPT ![b].state = "yielded"]
                   /\ mpc' = IF \A c \in DOMAIN future : c = b \/ future[c].state = "yielded"
                             THEN "update" ELSE "collect"
    /\ UNCHANGED <<cells, answers, urls, batches, max_workers, batch_size, queue, worker, seq, report, started,
                   resolved, stopRequested>>
    /\ UNCHANGED callVars

\* lines 327-336: get_logo returns, the result is appended, progress is shown
\* and, after the pause, get_logo is called for the next URL
SeqFinishUrl ==
    /\ mpc = "loop"
    /\ seq.busy
    /\ LET i == seq.pos + 1
           u == urls[i]
       IN  \E r \in answers[u] :
               IF r[1] = Raise
               THEN /\ mpc' = "aborted"
                    /\ UNCHANGED <<seq, results, progress, resolved, started>>
               ELSE /\ resolved' = [resolved EXCEPT ![i] = r]
                    /\ results' = Append(results, <<u, r[1], r[2]>>)
                    /\ progress' = Append(progress,
                                     [count |-> i, finished |-> NumFinished + 1])
                    /\ IF i = Len(cells)
                       THEN /\ seq' = [pos |-> i, busy |-> FALSE]
                            /\ mpc' = "update"
                            /\ UNCHANGED started
                       ELSE /\ seq' = [pos |-> i, busy |-> TRUE]
                            /\ mpc' = "loop"
                            /\ started' = started \cup {i + 1}
    /\ UNCHANGED <<cells, answers, urls, batches, max_workers, batch_size, queue, worker, future,
                   processed_count, report, stopRequested>>
    /\ UNCHANGED callVars

\* lines 339-344: result_dict is built and the rows of df are updated
UpdateReport ==
    /\ mpc = "update"
    /\ report' = UpdatedReport(cells, results)
    /\ mpc' = "done"
    /\ UNCHANGED <<cells, answers, urls, batches, max_workers, batch_size, queue, worker, future, seq, results,
                   processed_count, progress, started, resolved, stopRequested>>
    /\ UNCHANGED callVars

\* the environment asks the run to stop; no line of main reads the request
RequestStop ==
    /\ mpc \in {"collect", "loop"}
    /\ ~stopRequested
    /\ stopRequested' = TRUE
    /\ UNCHANGED <<mpc, cells, answers, urls, batches, max_workers, batch_size, queue, worker, future, seq,
                   results, processed_count, progress, report, started, resolved>>
    /\ UNCHANGED callVars

NextBatch ==
    \/ StartRun
    \/ \E w \in DOMAIN worker : WorkerTake(w)
    \/ \E w \in DOMAIN worker : WorkerFinishUrl(w)
    \/ Collect
    \/ SeqFinishUrl
    \/ UpdateReport
    \/ RequestStop

SpecBatch == InitBatch /\ [][NextBatch]_vars

(***************************************************************************)
(* The same run over a column one row longer than MaxUrls that holds one   *)
(* URL in every row: with one URL per batch there are more batches than    *)
(* pool threads.                                                           *)
(***************************************************************************)
PoolUrls == MaxUrls + 1

InitPool ==
    /\ CallIdle
    /\ mpc = "start"
    /\ cells = [i \in 1..PoolUrls |-> PyStr("a.com/x")]
    /\ answers = ResultsOf
    /\ max_workers \in 1..MaxWorkers
    /\ batch_size \in 1..MaxBatchSize
    /\ report = [i \in 1..Len(cells) |-> <<None, None>>]
    /\ resolved = [i \in 1..Len(cells) |-> NotYet]
    /\ BatchFresh

SpecPool == InitPool /\ [][NextBatch]_vars

(***************************************************************************)
(* Properties of one call of get_logo (specification Spec).                *)
(***************************************************************************)
\* the i-th ranked candidate was fetched and passed validation (an inline
\* SVG needs neither)
FetchedAndValid(i) ==
    \/ run.ranked[i].kind = "inline_svg"
    \/ plan[i].out = "decoded" /\ plan[i].width >= 16 /\ plan[i].height >= 16

\* ... and its artifact was written without error
Saved(i) == FetchedAndValid(i) /\ plan[i].save = "ok"

\* the path of the artifact made from the i-th ranked candidate
ArtifactPath(i) ==
    Filepath(CandFilename(run.ranked[i], plan[i], Netloc(prepare_url(url))))

\* C1 as stated: the first candidate in ranked order that passes fetch and
\* validation wins: the result is its artifact and no candidate ranked after
\* it is tried (fetched or written).
C1_FirstValidatedWins ==
    pc = "returned" =>
        \A i \in 1..Len(run.ranked) :
            (FetchedAndValid(i) /\ \A j \in 1..(i - 1) : ~FetchedAndValid(j)) =>
                /\ run.winner = i
                /\ run.result = <<ArtifactPath(i), "Success">>
                /\ \A k \in 1..Len(run.tried) : run.tried[k] <= i

\* C1 as amended: candidates are tried strictly in ranked order (score
\* descending) and the first candidate that passes fetch and validation and
\* whose artifact is written without error wins: the result is its artifact,
\* and no candidate ranked after it is fetched or written.  A candidate whose
\* save raises is skipped like any other failed candidate.
C1_FirstSavedWins ==
    pc = "returned" =>
        /\ \A j \in 1..(Len(run.ranked) - 1) :
               run.ranked[j].score >= run.ranked[j + 1].score
        /\ run.tried = [k \in 1..Len(run.tried) |-> k]
        /\ \A k \in 1..Len(run.fetched) : run.fetched[k] \in 1..Len(run.tried)
        /\ \A i \in 1..Len(run.ranked) :
               (Saved(i) /\ \A j \in 1..(i - 1) : ~Saved(j)) =>
                   /\ run.winner = i
                   /\ run.result = <<ArtifactPath(i), "Success">>
                   /\ Len(run.tried) = i
        /\ (\A i \in 1..Len(run.ranked) : ~Saved(i)) =>
               run.winner = 0 /\ Len(run.tried) = Len(run.ranked)

\* scores 6, 5, 3: the first asset is too small, the second wins, the third
\* is never fetched
C1_Witness ==
    /\ pc = "returned"
    /\ Len(run.ranked) = 3
    /\ run.ranked[1].score > run.ranked[2].score
    /\ run.ranked[2].score > run.ranked[3].score
    /\ plan[1].out = "decoded" /\ plan[1].width < 16
    /\ run.winner = 2
    /\ run.fetched = <<1, 2>>

\* C2: a non-empty candidate list whose candidates all fail fetch or
\* validation gives (None, "No valid logo found among candidates"), and
\* (None, "No logo candidates found") is returned exactly when the merged
\* candidate list is empty.
C2_ExhaustedIsAllFailed ==
    (pc = "returned" /\ site.page = "ok" /\ prepare_url(url) # None) =>
        /\ (logo_candidates # <<>> /\ \A i \in 1..Len(run.ranked) : ~FetchedAndValid(i)) =>
               run.result = <<None, "No valid logo found among candidates">>
        /\ run.result[2] = "No logo candidates found" <=> logo_candidates = <<>>
        /\ logo_candidates = <<>> => run.result[1] = None

C2_Witness ==
    /\ pc = "returned"
    /\ Len(logo_candidates) = 2
    /\ plan[1].out = "fetch_error"
    /\ plan[2].out = "decoded" /\ plan[2].height < 16
    /\ run.result = <<None, "No valid logo found among candidates">>

\* the candidates of s with score v, in the order they have in s
WithScore(s, v) == SelectSeq(s, LAMBDA c : c.score = v)

\* C3: the ranked list is the merged discovery list (strategy 1, 2, 3, 4 in
\* that order) sorted by score descending; candidates of equal score keep
\* their discovery order, and ranking the ranked list again changes nothing.
C3_StableRanking ==
    /\ pc = "process" =>
           logo_candidates =
               find_favicon_links(site.soup, prepare_url(url))
               \o find_logo_in_img_attributes(site.soup, prepare_url(url))
               \o find_svg_logos(site.soup, prepare_url(url))
               \o find_header_logos(site.soup, prepare_url(url))
    /\ pc = "returned" =>
           /\ Len(run.ranked) = Len(logo_candidates)
           /\ \A j \in 1..(Len(run.ranked) - 1) :
                  run.ranked[j].score >= run.ranked[j + 1].score
           /\ \A j \in 1..Len(logo_candidates) :
                  WithScore(run.ranked, logo_candidates[j].score)
                      = WithScore(logo_candidates, logo_candidates[j].score)
           /\ sort_by_score_reverse(run.ranked) = run.ranked

\* two different candidates tie, and the sort has to move a candidate
C3_Witness ==
    /\ pc = "returned"
    /\ \E i, j \in 1..Len(logo_candidates) :
           /\ i < j
           /\ logo_candidates[i].score = logo_candidates[j].score
           /\ logo_candidates[i] # logo_candidates[j]
    /\ \E k \in 1..(Len(logo_candidates) - 1) :
           logo_candidates[k].score < logo_candidates[k + 1].score

\* C9: in the link-relation scan a link whose rel holds both
\* 'apple-touch-icon' and 'precomposed' scores strictly higher than a link
\* whose rel is 'icon' or 'shortcut icon'.
C9_PrecomposedOutranksFavicon ==
    pc = "process" =>
        LET links == SelectSeq(FindAll(site.soup, {"link"}), LAMBDA l : l.href # "")
        IN  \A i, j \in 1..Len(links) :
                (/\ Contains("apple-touch-icon", RelOf(links[i]))
                 /\ Contains("precomposed", RelOf(links[i]))
                 /\ RelOf(links[j]) \in {"icon", "shortcut icon"}) =>
                    FaviconScore(RelOf(links[i])) > FaviconScore(RelOf(links[j]))

\* C10: a result of get_logo has a path exactly when its message is
\* "Success"; every other result has path None and a non-empty message.
C10_PathIffSuccess ==
    pc = "returned" =>
        /\ run.result[1] # Raise
        /\ run.result[1] # None <=> run.result[2] = "Success"
        /\ run.result[2] # "Success" => run.result[1] = None /\ Len(run.result[2]) > 0

\* the page request fails with an exception whose text is empty
C10_Witness ==
    /\ pc = "returned"
    /\ site.page = "request_error"
    /\ site.err = ""
    /\ run.result = <<None, "Request error: ">>

(***************************************************************************)
(* Properties of the batch run (specification SpecBatch).                  *)
(***************************************************************************)
\* C4: when the run is done every row of the report carries the path and
\* status its own URL's resolution produced.
C4_ReportAccountsForEveryRow ==
    mpc = "done" => \A i \in 1..Len(cells) : report[i] = resolved[i]

\* rows i and i + 1 are handled by the same loop: the sequential loop, or
\* the same batch
SameLoop(i) == max_workers = 1 \/ (i % batch_size) # 0

\* C5: no failure leaves get_logo: every call returns a result of its own,
\* (None, diagnostic) unless it succeeded; no batch and no run is aborted,
\* the URL after a failed one is still processed, and at the end every URL
\* has its result in the collected results.
C5_FailureIsolation ==
    /\ mpc # "aborted"
    /\ \A b \in DOMAIN future : future[b].state # "failed"
    /\ \A i \in DOMAIN resolved :
           resolved[i] # NotYet =>
               /\ resolved[i][1] # Raise
               /\ resolved[i][2] # "Success" =>
                      resolved[i][1] = None /\ Len(resolved[i][2]) > 0
               /\ (i < Len(cells) /\ SameLoop(i)) => (i + 1) \in started
    /\ mpc \in {"update", "done"} =>
           /\ Len(results) = Len(cells)
           /\ \A i \in DOMAIN resolved :
                  /\ resolved[i] # NotYet
                  /\ \E k \in 1..Len(results) :
                         results[k] = <<urls[i], resolved[i][1], resolved[i][2]>>

\* two workers; the first URL of a batch fails, the second is still resolved
C5_Witness ==
    /\ mpc = "done"
    /\ max_workers = 2
    /\ batch_size = 2
    /\ Len(cells) = 2
    /\ resolved[1] = <<None, "Request error: timed out">>
    /\ resolved[2][2] = "Success"

\* C6: two successful resolutions for URLs on the same domain in one run
\* have different artifact paths.
C6_DistinctNames ==
    \A i, j \in DOMAIN resolved :
        (/\ i < j
         /\ resolved[i] # NotYet /\ resolved[i][2] = "Success"
         /\ resolved[j] # NotYet /\ resolved[j][2] = "Success"
         /\ Netloc(prepare_url(PyStr(urls[i]))) = Netloc(prepare_url(PyStr(urls[j])))) =>
            resolved[i][1] # resolved[j][1]

\* C7: once the stop signal is raised no new URL is dispatched.
C7_NoDispatchAfterStop == [][stopRequested => started' = started]_vars

DecodedTooSmall(i) ==
    /\ run.ranked[i].kind = "url"
    /\ plan[i].out = "decoded"
    /\ (plan[i].width < 16 \/ plan[i].height < 16)

InProgress == {i \in started : resolved[i] = NotYet}

\* C12: in a parallel run with max_workers = W the pool has W threads, at
\* most W get_logo calls are in progress at any moment, one per busy thread,
\* and within a batch the call for a URL begins only when the call for the
\* URL before it has returned.
C12_BoundedPool ==
    max_workers > 1 =>
        /\ Cardinality(InProgress) <= max_workers
        /\ mpc = "collect" => Len(worker) = max_workers
        /\ Cardinality({w \in DOMAIN worker : worker[w].busy}) = Cardinality(InProgress)
        /\ \A w \in DOMAIN worker :
               worker[w].busy =>
                   RowOf(worker[w].batch, worker[w].pos + 1, batch_size) \in InProgress
        /\ \A i \in started :
               (i > 1 /\ ((i - 1) % batch_size) # 0) => resolved[i - 1] # NotYet

\* two threads are busy and a third batch waits in the queue
C12_Witness ==
    /\ mpc = "collect"
    /\ max_workers = 2
    /\ batch_size = 1
    /\ Len(cells) = 3
    /\ Cardinality(InProgress) = 2
    /\ queue = <<3>>

\* the files the call has left in the output directory
FilesLeft == {run.created[k] : k \in 1..Len(run.created)}

\* C13: one call of get_logo leaves at most one file in the output
\* directory, the one its Success result names, and none when the result is
\* not Success: a discarded candidate leaves no file.
C13_AtMostOneFile ==
    pc = "returned" =>
        /\ Cardinality(FilesLeft) <= 1
        /\ run.result[2] = "Success" => FilesLeft = {run.result[1]}
        /\ run.result[2] # "Success" => FilesLeft = {}

====
